---- MODULE Spec2Model ----
(***************************************************************************)
(* A model of code/chain_server/trt_llm.py: the Triton session client      *)
(* (TritonClient) and the LangChain adapter (TensorRTLLM._call).           *)
(*                                                                         *)
(* Two threads act on the state: the calling thread, which runs the public *)
(* operations (its position is pc), and the transport's delivery thread,   *)
(* which runs stream_callback for every server push (its position is       *)
(* cbPc).  The Triton server and the tritonclient library are the          *)
(* environment: every is_model_ready query may answer either way, the      *)
(* monotonic clock may advance by any of Ticks between two readings, and   *)
(* an open stream may push any sequence of responses.  The responses of    *)
(* Spec carry OUTPUT_0 tensors of rank 1 or 2; those of SpecAnyRank may    *)
(* carry a tensor of rank 3 as well.                                       *)
(***************************************************************************)
EXTENDS Integers, Sequences, FiniteSets, TLC

(* ------------------------------ bounds -------------------------------- *)
\* largest timeout, in clock units, a direct caller passes to load_model
MaxTimeout == 2
\* largest ordinary advance of the clock between two readings
MaxTick == 2
\* most pushes the server makes on one stream
MaxPushes == 4
\* most instance groups in a model configuration
MaxGroups == 3
\* largest instance count of a group
MaxCount == 2
\* most devices listed in the gpus of a group
MaxGpus == 2

(* ------------------------- program constants -------------------------- *)
\* load_model(self, model_name, timeout: int = 1000)
DefaultTimeout == 1000
STOP_WORDS == {"</s>"}
\* the escape token that _call renders as a newline
NEWLINE_ESCAPE == "<0x0A>"

(* ------------------------------ inputs -------------------------------- *)
\* timeouts a caller passes to load_model and get_model_concurrency
Timeouts == (0 .. MaxTimeout) \cup {DefaultTimeout}
\* advances of perf_counter between two readings: a short step, or a pause
\* of the calling thread as long as the default timeout
Ticks == (0 .. MaxTick) \cup {DefaultTimeout}
\* the model_name the adapter was constructed with, and another model
ModelNames == {"ensemble", "other"}
\* what **kwargs of _call holds: nothing but generation parameters, a
\* model_name entry, or a key generate_inputs does not accept
KwargsKinds == {"params", "model_name", "unexpected"}
\* token payloads the server may send: a plain token, the stop token and
\* the newline escape
Tokens == {"tok", "</s>", "<0x0A>"}

VARIABLES
    pc,            \* position of the calling thread
    op,            \* the public operation the calling thread is in
    outcome,       \* how the last finished operation ended
    retval,        \* what it returned
    message,       \* the text of the exception it raised
    model_name,    \* the model_name argument of the running client call
    timeout,       \* load_model's timeout argument
    t0, t1,        \* load_model's clock readings
    loadCmds,      \* load commands sent to the server by the running operation
    lastReady,     \* answer of the latest is_model_ready query of the operation
    sawReady,      \* some query of the running load_model call answered ready
    run_manager,   \* _call was given a run_manager (text_callback is set)
    kwargs,        \* kind of **kwargs given to _call
    result_queue,  \* the queue.Queue of the running _call
    streamOpen,    \* start_stream was called and stop_stream was not yet
    inferSent,     \* async_stream_infer requests sent on the open stream
    nPushes,       \* pushes the server made on the open stream
    cbPc,          \* position of the delivery thread inside stream_callback
    response,      \* _call's accumulated text
    send_tokens,   \* _call's flag, cleared by a stop token
    tokensSent,    \* calls of text_callback: the token and the calling thread
    dequeued,      \* events result_queue.get() returned, in order
    enqueued,      \* events stream_callback put, in order
    closeCalls,    \* calls of close_streaming by the running operation
    instancesRead, \* the instance_group list get_model_concurrency read
    finalPushed,   \* the server made a push with an error or the final flag
    abandoned      \* the queue of the previous operation still held events

vars == <<pc, op, outcome, retval, message, model_name, timeout, t0, t1, loadCmds,
          lastReady, sawReady, run_manager, kwargs, result_queue, streamOpen,
          inferSent, nPushes, cbPc, response, send_tokens, tokensSent,
          dequeued, enqueued, closeCalls, instancesRead, finalPushed, abandoned>>

loadVars == <<timeout, t0, t1>>
callVars == <<run_manager, kwargs, response, send_tokens, tokensSent, dequeued>>
streamVars == <<result_queue, streamOpen, inferSent, nPushes, cbPc, enqueued,
               instancesRead, finalPushed, abandoned>>

(* ------------------------------ events -------------------------------- *)
\* what stream_callback puts on the queue: the dict process_result builds,
\* the InferenceServerException of a failed push, or None
TokenEvent(text) == [type |-> "dict", OUTPUT_0 |-> text]
ErrorEvent == [type |-> "InferenceServerException", OUTPUT_0 |-> ""]
NoneEvent == [type |-> "None", OUTPUT_0 |-> ""]
Events == {TokenEvent(t) : t \in Tokens} \cup {ErrorEvent, NoneEvent}

\* a loop that takes every event for the end of the stream
IsTerminalAny(e) == TRUE

\* a loop that also ends at a stop token
IsTerminalOrStop(e) ==
    e.type \in {"None", "InferenceServerException"} \/ e.OUTPUT_0 = "</s>"

\* _call, line 145: response_streaming is None or an InferenceServerException
IsTerminal(e) == e = NoneEvent \/ e = ErrorEvent

\* return values: None, a str (of _call) or an int (of get_model_concurrency)
RetNone == [kind |-> "None", str |-> "", int |-> 0]
RetStr(text) == [kind |-> "str", str |-> text, int |-> 0]
RetInt(n) == [kind |-> "int", str |-> "", int |-> n]

Init ==
    /\ pc = "idle"
    /\ op = "none"
    /\ outcome = "none"
    /\ retval = RetNone
    /\ message = <<>>
    /\ model_name = "ensemble"
    /\ timeout = DefaultTimeout
    /\ t0 = 0
    /\ t1 = 0
    /\ loadCmds = 0
    /\ lastReady = "none"
    /\ sawReady = FALSE
    /\ run_manager = FALSE
    /\ kwargs = "params"
    /\ result_queue = <<>>
    /\ streamOpen = FALSE
    /\ inferSent = 0
    /\ nPushes = 0
    /\ cbPc = "idle"
    /\ response = ""
    /\ send_tokens = TRUE
    /\ tokensSent = <<>>
    /\ dequeued = <<>>
    /\ enqueued = <<>>
    /\ closeCalls = 0
    /\ instancesRead = <<>>
    /\ finalPushed = FALSE
    /\ abandoned = FALSE

(* ---------------------- TritonClient.load_model ----------------------- *)
\* where the calling thread continues when load_model returns
AfterLoad(o) ==
    CASE o = "generate" -> "rs_call"
      [] o = "get_model_concurrency" -> "gmc_config"
      [] OTHER -> "idle"

\* what the operation records of an is_model_ready answer
Report(ready) == IF ready THEN "ready" ELSE "not_ready"

\* a call that goes on with the queue of the call before it
ReusedQueue(old) == old

\* line 134: result_queue = queue.Queue(), a new and empty queue, whatever
\* the queue of the call before still holds
FreshQueue(old) == <<>>

\* A public operation begins on the idle calling thread: o is the operation,
\* m and tmo the arguments it passes to load_model, rm and kw the
\* run_manager and **kwargs of _call.  The locals and the records of the
\* previous operation are gone; _call's queue is a new, empty one (line 134).
BeginOp(o, m, tmo, rm, kw) ==
    /\ pc = "idle"
    /\ op' = o
    /\ outcome' = "none"
    /\ retval' = RetNone
    /\ message' = <<>>
    /\ model_name' = m
    /\ timeout' = tmo
    /\ t0' = 0
    /\ t1' = 0
    /\ loadCmds' = 0
    /\ lastReady' = "none"
    /\ sawReady' = FALSE
    /\ closeCalls' = 0
    /\ run_manager' = rm
    /\ kwargs' = kw
    /\ response' = ""
    /\ send_tokens' = TRUE
    /\ tokensSent' = <<>>
    /\ dequeued' = <<>>
    /\ result_queue' = FreshQueue(result_queue)
    /\ enqueued' = <<>>
    /\ inferSent' = 0
    /\ nPushes' = 0
    /\ instancesRead' = <<>>
    /\ finalPushed' = FALSE
    /\ abandoned' = (result_queue # <<>>)
    /\ UNCHANGED <<streamOpen, cbPc>>
    /\ pc' = "lm_check"

\* the calling thread leaves the operation with an exception
Raise(e, msg) ==
    /\ pc' = "idle"
    /\ outcome' = e
    /\ message' = msg
    /\ retval' = RetNone

\* the calling thread leaves load_model normally; its locals are gone
LoadReturns ==
    /\ pc' = AfterLoad(op)
    /\ timeout' = 0
    /\ t0' = 0
    /\ t1' = 0
    /\ IF op = "load_model"
       THEN outcome' = "returned" /\ retval' = RetNone
       ELSE UNCHANGED <<outcome, retval>>
    /\ UNCHANGED message

\* a direct call client.load_model(model_name, timeout)
load_model_call ==
    /\ \E m \in ModelNames, tmo \in Timeouts :
        BeginOp("load_model", m, tmo, FALSE, "params")

\* load_model without its early return
ReturnsEarlyNever(ready) == FALSE

\* line 180: load_model returns at once when the model is reported ready
ReturnsEarly(ready) == ready

\* lines 180-181: if self.client.is_model_ready(model_name): return
load_model_check ==
    /\ pc = "lm_check"
    /\ \E ready \in BOOLEAN :
        /\ lastReady' = Report(ready)
        /\ sawReady' = ready
        /\ IF ReturnsEarly(ready) THEN LoadReturns
           ELSE pc' = "lm_load" /\ UNCHANGED <<outcome, retval, message, loadVars>>
    /\ UNCHANGED <<op, model_name, loadCmds, closeCalls, callVars, streamVars>>

\* a load_model that sends its command a second time
LoadCommandRepeated(sent) == sent + 2

\* line 183: self.client.load_model(model_name), one command to the server
LoadCommand(sent) == sent + 1

\* lines 183-185: the load command, then t0 = time.perf_counter(); t1 = t0.
\* The reference point of perf_counter is undefined, so the first reading is
\* taken as the origin.
load_model_load ==
    /\ pc = "lm_load"
    /\ loadCmds' = LoadCommand(loadCmds)
    /\ t0' = 0
    /\ t1' = 0
    /\ pc' = "lm_poll"
    /\ UNCHANGED <<op, outcome, retval, message, model_name, timeout, lastReady,
                   sawReady, closeCalls, callVars, streamVars>>

\* the loop test without the timeout
PollAgainNoTimeout(ready, a, b, tmo) == ~ready

\* line 186: the loop test, not is_model_ready(...) and t1 - t0 < timeout
PollAgain(ready, a, b, tmo) == ~ready /\ b - a < tmo

\* lines 186-187: one test of the loop and, when it passes, one reading of
\* the monotonic clock
load_model_poll ==
    /\ pc = "lm_poll"
    /\ \E ready \in BOOLEAN :
        /\ lastReady' = Report(ready)
        /\ sawReady' = (sawReady \/ ready)
        /\ IF PollAgain(ready, t0, t1, timeout)
           THEN /\ \E d \in Ticks : t1' = t1 + d
                /\ pc' = "lm_poll"
           ELSE /\ t1' = t1
                /\ pc' = "lm_final"
    /\ UNCHANGED <<op, outcome, retval, message, model_name, timeout, t0,
                   loadCmds, closeCalls, callVars, streamVars>>

\* line 189: RuntimeError(f"Failed to load {model_name} on Triton in {timeout}s")
LoadFailure(m, tmo) == <<"Failed to load", m, "on Triton in", tmo, "s">>

\* load_model without its last test
LoadSucceededAlways(ready) == TRUE

\* line 188: load_model returns when its query after the loop answers ready
LoadSucceeded(ready) == ready

\* lines 188-189: if not is_model_ready(...): raise RuntimeError(...)
load_model_final ==
    /\ pc = "lm_final"
    /\ \E ready \in BOOLEAN :
        /\ lastReady' = Report(ready)
        /\ sawReady' = (sawReady \/ ready)
        /\ IF LoadSucceeded(ready) THEN LoadReturns
           ELSE /\ Raise("ModelLoadTimeout", LoadFailure(model_name, timeout))
                /\ t0' = 0
                /\ t1' = 0
                /\ timeout' = timeout
    /\ UNCHANGED <<op, model_name, loadCmds, closeCalls, callVars, streamVars>>

(* ---------------- TritonClient.get_model_concurrency ------------------ *)
\* the sequences over S of length n or less
RECURSIVE SeqsUpTo(_, _)
SeqsUpTo(S, n) ==
    IF n = 0 THEN {<<>>}
    ELSE LET shorter == SeqsUpTo(S, n - 1)
         IN shorter \cup {Append(q, x) : q \in shorter, x \in S}

\* the gpus of a group list devices 0, 1, ...: the code reads only their number
GpuLists == {[i \in 1 .. n |-> i - 1] : n \in 0 .. MaxGpus}
InstanceGroups == [count : 0 .. MaxCount, gpus : GpuLists]
InstanceGroupLists == SeqsUpTo(InstanceGroups, MaxGroups)

\* a sum that counts a group without gpus as one device
RECURSIVE SumConcurrencyCpuAsOne(_)
SumConcurrencyCpuAsOne(instances) ==
    IF instances = <<>> THEN 0
    ELSE Head(instances).count
            * (IF Head(instances).gpus = <<>> THEN 1 ELSE Len(Head(instances).gpus))
         + SumConcurrencyCpuAsOne(Tail(instances))

\* line 202: sum(instance["count"] * len(instance["gpus"]) for instance in instances)
RECURSIVE SumConcurrency(_)
SumConcurrency(instances) ==
    IF instances = <<>> THEN 0
    ELSE Head(instances).count * Len(Head(instances).gpus)
         + SumConcurrency(Tail(instances))

\* a call client.get_model_concurrency(model_name, timeout); line 198 calls
\* load_model(model_name, timeout)
get_model_concurrency_call ==
    /\ \E m \in ModelNames, tmo \in Timeouts :
        BeginOp("get_model_concurrency", m, tmo, FALSE, "params")

\* lines 199-202: the server's configuration of the model is read and the
\* concurrency is returned
get_model_concurrency_config ==
    /\ pc = "gmc_config"
    /\ \E instances \in InstanceGroupLists :
        /\ instancesRead' = instances
        /\ retval' = RetInt(SumConcurrency(instances))
    /\ outcome' = "returned"
    /\ pc' = "idle"
    /\ UNCHANGED <<op, message, model_name, loadVars, loadCmds, lastReady, sawReady,
                   closeCalls, callVars, result_queue, streamOpen, inferSent,
                   nPushes, cbPc, enqueued, finalPushed, abandoned>>

(* ------------------------- the server's pushes ------------------------ *)
\* One push of the stream, as the transport hands it to stream_callback:
\* error is set, or the response has an "outputs" entry or not (OUTPUT_0 is
\* then a tensor of rank ndim: a list of byte strings, a list of such
\* lists, or a list of lists of such lists) and its triton_final_response
\* flag is final.
ErrorPush == [error |-> TRUE, has_outputs |-> FALSE, ndim |-> 1, data |-> <<>>,
              final |-> FALSE]
EmptyPush(final) == [error |-> FALSE, has_outputs |-> FALSE, ndim |-> 1,
                     data |-> <<>>, final |-> final]
TokenPush(ndim, text, final) ==
    [error |-> FALSE, has_outputs |-> TRUE, ndim |-> ndim,
     data |-> CASE ndim = 1 -> <<text>>
                [] ndim = 2 -> <<(<<text>>)>>
                [] OTHER -> <<(<<(<<text>>)>>)>>,
     final |-> final]

\* the pushes of a server whose OUTPUT_0 has one of the two ranks
\* process_result provides for
Pushes ==
    {ErrorPush}
      \cup {EmptyPush(f) : f \in BOOLEAN}
      \cup {TokenPush(n, t, f) : n \in {1, 2}, t \in Tokens, f \in BOOLEAN}

\* pushes whose OUTPUT_0 has rank 3
OtherRankPushes == {TokenPush(3, "tok", f) : f \in BOOLEAN}

(* -------------------- TritonClient.stream_callback -------------------- *)
\* a queue that hands out its newest entry first (a LifoQueue)
QueuePutLifo(q, e) == <<e>> \o q

\* queue.Queue.put and queue.Queue.get: first in, first out
QueuePut(q, e) == Append(q, e)
QueueFront(q) == Head(q)
QueueRest(q) == Tail(q)

\* lines 216-224: np_res[0, 0].decode() if np_res.ndim == 2 else np_res[0].decode()
process_result(result) ==
    TokenEvent(IF result.ndim = 2 THEN result.data[1][1] ELSE result.data[1])

\* lines 216-219: with a rank other than 1 and 2 the else branch takes
\* np_res[0], an array, which has no decode(): the call raises
ProcessResultRaises(result) == result.ndim \notin {1, 2}

\* lines 235-239: the exception of process_result leaves stream_callback
CallbackRaises(push) ==
    ~push.error /\ push.has_outputs /\ ProcessResultRaises(push)

\* a callback that puts None before the data of the push
CallbackDataAfterNone(push) ==
    IF push.error THEN <<ErrorEvent>>
    ELSE (IF push.final THEN <<NoneEvent>> ELSE <<>>)
            \o (IF push.has_outputs
                THEN <<TokenEvent(IF push.ndim = 2 THEN push.data[1][1]
                                  ELSE push.data[1])>>
                ELSE <<>>)

\* lines 233-239: the events the callback puts before it looks at the final flag
CallbackData(push) ==
    IF push.error THEN <<ErrorEvent>>
    ELSE IF push.has_outputs THEN <<process_result(push)>>
    ELSE <<>>

\* line 241: the callback goes on to put None
CallbackFinal(push) == ~push.error /\ push.final

\* the queue after the events es were put, in order
RECURSIVE PutAll(_, _)
PutAll(q, es) == IF es = <<>> THEN q ELSE PutAll(QueuePut(q, Head(es)), Tail(es))

\* The delivery thread runs stream_callback for the push, up to line 241.
\* An exception that leaves the callback ends the delivery thread, which
\* passes on only the transport's own errors: no later push is delivered.
StreamCallback(push) ==
    /\ IF CallbackRaises(push)
       THEN /\ cbPc' = "raised"
            /\ UNCHANGED <<result_queue, enqueued>>
       ELSE /\ result_queue' = PutAll(result_queue, CallbackData(push))
            /\ enqueued' = enqueued \o CallbackData(push)
            /\ cbPc' = IF CallbackFinal(push) THEN "cb_final" ELSE "idle"
    /\ nPushes' = nPushes + 1
    /\ finalPushed' = (finalPushed \/ push.error \/ push.final)
    /\ UNCHANGED <<pc, op, outcome, retval, message, model_name, loadVars, loadCmds,
                   lastReady, sawReady, closeCalls, callVars, streamOpen,
                   inferSent, instancesRead, abandoned>>

\* the server pushes a response on the open stream
stream_callback ==
    /\ streamOpen
    /\ inferSent > 0
    /\ cbPc = "idle"
    /\ nPushes < MaxPushes
    /\ \E push \in Pushes : StreamCallback(push)

\* the server pushes a response whose OUTPUT_0 has rank 3
stream_callback_other_rank ==
    /\ streamOpen
    /\ inferSent > 0
    /\ cbPc = "idle"
    /\ nPushes < MaxPushes
    /\ \E push \in OtherRankPushes : StreamCallback(push)

\* the streams of the spec's testable properties: "Hello", " world", "</s>",
\* " ignored" and then the empty final response; and "foo", then an error
ExampleStreams ==
    { <<TokenPush(1, "Hello", FALSE), TokenPush(1, " world", FALSE),
        TokenPush(1, "</s>", FALSE), TokenPush(1, " ignored", FALSE),
        EmptyPush(TRUE)>>,
      <<TokenPush(1, "foo", FALSE), ErrorPush>> }

\* the server pushes the next response of one of the example streams
example_stream_callback ==
    /\ streamOpen
    /\ inferSent > 0
    /\ cbPc = "idle"
    /\ \E stream \in ExampleStreams :
        /\ nPushes < Len(stream)
        /\ StreamCallback(stream[nPushes + 1])

\* lines 241-243: result_queue.put(None)
stream_callback_final ==
    /\ cbPc = "cb_final"
    /\ result_queue' = QueuePut(result_queue, NoneEvent)
    /\ enqueued' = Append(enqueued, NoneEvent)
    /\ cbPc' = "idle"
    /\ UNCHANGED <<pc, op, outcome, retval, message, model_name, loadVars, loadCmds,
                   lastReady, sawReady, closeCalls, callVars, streamOpen,
                   inferSent, nPushes, instancesRead, finalPushed, abandoned>>

(* ------------------------- TensorRTLLM._call -------------------------- *)
\* the model_name the adapter was constructed with (line 50)
SelfModelName == "ensemble"

\* lines 131-132: model_params = self._identifying_params; update(kwargs)
ModelParamsName(kw) == IF kw = "model_name" THEN "other" ELSE SelfModelName

\* lines 124-135: _call begins and calls load_model(model_params["model_name"])
call_begin ==
    /\ \E rm \in BOOLEAN, kw \in KwargsKinds :
        BeginOp("generate", ModelParamsName(kw), DefaultTimeout, rm, kw)

\* lines 136-138: the call request_streaming(model_name, result_queue,
\* **invocation_params); invocation_params holds every key of kwargs, so a
\* model_name among them is a second value for the first parameter
call_request_streaming ==
    /\ pc = "rs_call"
    /\ IF kwargs = "model_name"
       THEN Raise("TypeError", <<"multiple values for argument", "model_name">>)
       ELSE pc' = "rs_check" /\ UNCHANGED <<outcome, retval, message>>
    /\ UNCHANGED <<op, model_name, loadVars, loadCmds, lastReady, sawReady,
                   closeCalls, callVars, streamVars>>

\* line 269: RuntimeError("Cannot request streaming, model is not loaded")
NotLoaded == <<"Cannot request streaming, model is not loaded">>

\* request_streaming without its readiness check
MayStreamUnchecked(ready) == TRUE

\* line 268: request_streaming goes on when the model is reported ready
MayStream(ready) == ready

\* lines 268-272 and 253-259, then lines 140-141 of _call: the readiness
\* check, generate_inputs(**params), start_stream with the callback bound
\* to result_queue, and async_stream_infer
request_streaming ==
    /\ pc = "rs_check"
    /\ \E ready \in BOOLEAN :
        /\ lastReady' = Report(ready)
        /\ IF ~MayStream(ready)
           THEN /\ Raise("ModelNotReady", NotLoaded)
                /\ UNCHANGED <<streamOpen, inferSent, response, send_tokens>>
           ELSE IF kwargs = "unexpected"
           THEN /\ Raise("TypeError", <<"unexpected keyword argument">>)
                /\ UNCHANGED <<streamOpen, inferSent, response, send_tokens>>
           ELSE /\ streamOpen' = TRUE
                /\ inferSent' = inferSent + 1
                /\ response' = ""
                /\ send_tokens' = TRUE
                /\ pc' = "drain"
                /\ UNCHANGED <<outcome, retval, message>>
    /\ UNCHANGED <<op, model_name, loadVars, loadCmds, sawReady, closeCalls,
                   run_manager, kwargs, tokensSent, dequeued, result_queue,
                   nPushes, cbPc, enqueued, instancesRead, finalPushed, abandoned>>

\* lines 151-152: if token in STOP_WORDS: send_tokens = False
NextSendTokens(send, raw) == IF raw \in STOP_WORDS THEN FALSE ELSE send

\* the test of line 153 without send_tokens
ForwardsAfterStop(text_callback, send) == text_callback

\* line 153: if text_callback and send_tokens
Forwards(text_callback, send) == text_callback /\ send

\* line 157, as indented in the source: response = response + token is part
\* of the body of the if of line 153
Accumulates(text_callback, send) == text_callback /\ send

\* lines 154-155: the escape token becomes a newline
Render(raw) == IF raw = NEWLINE_ESCAPE THEN "\n" ELSE raw

\* line 156: text_callback(token), called by the thread that runs _call
CallbackCall(token) == [token |-> token, thread |-> "consumer"]

\* lines 143-157: one turn of the drain loop; result_queue.get() blocks
\* while the queue is empty
call_drain ==
    /\ pc = "drain"
    /\ result_queue # <<>>
    /\ LET response_streaming == QueueFront(result_queue) IN
        /\ result_queue' = QueueRest(result_queue)
        /\ dequeued' = Append(dequeued, response_streaming)
        /\ IF IsTerminal(response_streaming)
           THEN /\ pc' = "close"
                /\ UNCHANGED <<send_tokens, tokensSent, response>>
           ELSE LET raw == response_streaming.OUTPUT_0
                    send == NextSendTokens(send_tokens, raw)
                    token == Render(raw)
                IN  /\ pc' = "drain"
                    /\ send_tokens' = send
                    /\ tokensSent' = IF Forwards(run_manager, send)
                                     THEN Append(tokensSent, CallbackCall(token))
                                     ELSE tokensSent
                    /\ response' = IF Accumulates(run_manager, send)
                                   THEN response \o token
                                   ELSE response
    /\ UNCHANGED <<op, outcome, retval, message, model_name, loadVars, loadCmds,
                   lastReady, sawReady, closeCalls, run_manager, kwargs,
                   streamOpen, inferSent, nPushes, cbPc, enqueued, instancesRead,
                   finalPushed, abandoned>>

\* a close_streaming that leaves the stream as it is
stop_stream_skipped(open) == open

\* line 277: after self.client.stop_stream() no stream is open
stop_stream(open) == FALSE

\* lines 148-149 and 158: close_streaming() (stop_stream ends the stream
\* and joins the delivery thread, so a running callback finishes first),
\* break, return response
call_close_return ==
    /\ pc = "close"
    /\ cbPc # "cb_final"
    /\ cbPc' = "idle"
    /\ streamOpen' = stop_stream(streamOpen)
    /\ closeCalls' = closeCalls + 1
    /\ outcome' = "returned"
    /\ retval' = RetStr(response)
    /\ pc' = "idle"
    /\ UNCHANGED <<op, message, model_name, loadVars, loadCmds, lastReady, sawReady,
                   callVars, result_queue, inferSent, nPushes, enqueued,
                   instancesRead, finalPushed, abandoned>>

(* ------------------------- notions of the claims ---------------------- *)
Last(q) == q[Len(q)]

\* the payloads of the token events of es that come before the first stop
\* token and before the first terminal event
RECURSIVE VisiblePayloads(_)
VisiblePayloads(es) ==
    IF es = <<>> THEN <<>>
    ELSE IF IsTerminal(Head(es)) \/ Head(es).OUTPUT_0 \in STOP_WORDS THEN <<>>
    ELSE <<Head(es).OUTPUT_0>> \o VisiblePayloads(Tail(es))

\* a payload as the spec has it delivered: the newline escape as a newline
AsDelivered(payload) == IF payload = "<0x0A>" THEN "\n" ELSE payload

\* the concatenation, in order, of the payloads as delivered
RECURSIVE Concatenation(_)
Concatenation(payloads) ==
    IF payloads = <<>> THEN ""
    ELSE AsDelivered(Head(payloads)) \o Concatenation(Tail(payloads))

GenerateReturned == op = "generate" /\ outcome = "returned"

\* the events of the two example streams, as the consumer sees them
StopExampleEvents ==
    <<TokenEvent("Hello"), TokenEvent(" world"), TokenEvent("</s>"),
      TokenEvent(" ignored"), NoneEvent>>
ErrorExampleEvents == <<TokenEvent("foo"), ErrorEvent>>

(* -------------------------------- C1 ---------------------------------- *)
\* C1: whenever generate returns, with or without a token callback, the
\* value returned is the concatenation, in arrival order, of the payloads
\* that arrived before the first stop token and before the first terminal
\* event, the newline escape replaced by a newline.
C1_ReturnsConcatenation ==
    GenerateReturned => retval = RetStr(Concatenation(VisiblePayloads(enqueued)))

\* The same with a run_manager given: this part of C1 holds of the code.
WithCallbackReturnsConcatenation ==
    (GenerateReturned /\ run_manager)
        => retval = RetStr(Concatenation(VisiblePayloads(enqueued)))

(* -------------------------------- C2 ---------------------------------- *)
\* Neither a stop token nor anything consumed after it is forwarded or
\* appended: the callback has received, and the text holds, no more than
\* the payloads consumed before the first stop token.
SuppressedAfterStop ==
    LET visible == VisiblePayloads(dequeued) IN
    /\ Len(tokensSent) <= Len(visible)
    /\ \A i \in DOMAIN tokensSent : tokensSent[i].token = AsDelivered(visible[i])
    /\ \E k \in 0 .. Len(visible) : response = Concatenation(SubSeq(visible, 1, k))

\* the example stream of C2 yields "Hello world"
StopExampleYields ==
    (GenerateReturned /\ dequeued = StopExampleEvents)
        => retval = RetStr("Hello world")

\* C2: once a stop token was consumed, neither it nor any token consumed
\* after it in the same generation is appended or forwarded; the stream
\* "Hello", " world", "</s>", " ignored", EndOfStream yields "Hello world".
C2_StopTokenSuppression == SuppressedAfterStop /\ StopExampleYields

\* With a run_manager given the example streams of C2 and C3 yield what the
\* claims say.
WithCallbackExamplesYield ==
    (GenerateReturned /\ run_manager)
        => /\ dequeued = StopExampleEvents => retval = RetStr("Hello world")
           /\ dequeued = ErrorExampleEvents => retval = RetStr("foo")

(* -------------------------------- C3 ---------------------------------- *)
\* after an ErrorEvent was dequeued nothing more is dequeued, the call does
\* not raise, and it returns having called close_streaming once
ErrorEndsDrain ==
    /\ \A i \in DOMAIN dequeued : dequeued[i] = ErrorEvent => i = Len(dequeued)
    /\ (op = "generate" /\ dequeued # <<>> /\ Last(dequeued) = ErrorEvent)
        => /\ outcome \in {"none", "returned"}
           /\ pc \in {"close", "idle"}
           /\ outcome = "returned" => (closeCalls = 1 /\ ~streamOpen)

\* the text returned after an error is that of the tokens consumed before it
ErrorKeepsText ==
    (GenerateReturned /\ dequeued # <<>> /\ Last(dequeued) = ErrorEvent)
        => retval = RetStr(Concatenation(VisiblePayloads(dequeued)))

\* the example stream of C3 yields "foo"
ErrorExampleYields ==
    (GenerateReturned /\ dequeued = ErrorExampleEvents) => retval = RetStr("foo")

\* C3: when the consumer dequeues an ErrorEvent, generate stops draining,
\* calls close_streaming, does not raise and returns the text accumulated
\* from the tokens consumed before the error; "foo", ERROR yields "foo".
C3_ErrorMidStream == ErrorEndsDrain /\ ErrorKeepsText /\ ErrorExampleYields

(* -------------------------------- C4 ---------------------------------- *)
IsPrefix(p, q) == Len(p) <= Len(q) /\ SubSeq(q, 1, Len(p)) = p

\* C4: under every interleaving of stream_callback and the drain loop, what
\* the consumer has dequeued is a prefix, in the same order, of what the
\* callback enqueued, the rest is still queued in that order (nothing is
\* dropped, duplicated or reordered), and the consumer dequeues nothing
\* after its first terminal event.
C4_QueueKeepsOrder ==
    /\ IsPrefix(dequeued, enqueued)
    /\ enqueued = dequeued \o result_queue
    /\ \A i \in DOMAIN dequeued : IsTerminal(dequeued[i]) => i = Len(dequeued)

\* the callback ran between two turns of the drain loop and the consumer
\* then reached the terminal event, the fourth event of its stream
C4_Witness ==
    /\ GenerateReturned
    /\ Len(dequeued) = 4
    /\ IsTerminal(dequeued[4])
    /\ dequeued[1] # dequeued[2]
    /\ result_queue # <<>>

(* -------------------------------- C5 ---------------------------------- *)
\* C5: a request_streaming that finds the model not ready raises
\* ModelNotReady and does nothing else: no load command, no stream opened,
\* no inference request sent, no event enqueued.
C5_NotReadyHasNoEffect ==
    [][(pc = "rs_check" /\ pc' # "rs_check" /\ lastReady' = "not_ready")
        => /\ outcome' = "ModelNotReady"
           /\ message' = NotLoaded
           /\ pc' = "idle"
           /\ UNCHANGED <<loadCmds, streamOpen, inferSent, result_queue,
                          enqueued, nPushes, closeCalls>>
           /\ ~streamOpen']_vars

\* request_streaming was refused
C5_Witness ==
    /\ op = "generate"
    /\ outcome = "ModelNotReady"
    /\ lastReady = "not_ready"
    /\ ~streamOpen

(* -------------------------------- C6 ---------------------------------- *)
\* C6: a load_model whose readiness query answers ready returns at once and
\* sends no load command, on every call.
C6_ReadyLoadIsNoOp ==
    [][(pc = "lm_check" /\ pc' # "lm_check" /\ lastReady' = "ready")
        => /\ pc' = AfterLoad(op)
           /\ loadCmds' = 0
           /\ (op = "load_model" => outcome' = "returned")]_vars

\* a load_model that found the model ready has returned
C6_Witness ==
    /\ op = "load_model"
    /\ outcome = "returned"
    /\ loadCmds = 0
    /\ lastReady = "ready"

(* -------------------------------- C7 ---------------------------------- *)
\* the loop ends at its first test after the clock advanced by timeout
LoopEndsAtTimeout ==
    [][(pc = "lm_poll" /\ t1 - t0 >= timeout) => pc' = "lm_final"]_vars

\* a call that never saw the model ready does not return normally: it
\* raises the RuntimeError that names the model
NeverReadyRaises ==
    /\ (op = "load_model" /\ outcome = "returned") => sawReady
    /\ (op = "load_model" /\ outcome # "none" /\ ~sawReady)
        => /\ outcome = "ModelLoadTimeout"
           /\ loadCmds = 1
           /\ message = LoadFailure(model_name, timeout)

\* C7: load_model does not poll for ever: the loop ends once the clock has
\* advanced by timeout since the load command, and a call whose readiness
\* queries never answered ready fails with ModelLoadTimeout, a RuntimeError
\* naming the model, instead of returning normally.
C7_ReadinessTimeout ==
    /\ LoopEndsAtTimeout
    /\ []NeverReadyRaises
    /\ (pc = "lm_poll") ~> (pc = "idle" /\ (sawReady \/ outcome = "ModelLoadTimeout"))

\* a load_model with a positive timeout that never saw the model ready failed
C7_Witness ==
    /\ op = "load_model"
    /\ outcome = "ModelLoadTimeout"
    /\ ~sawReady
    /\ timeout > 0
    /\ loadCmds = 1

(* -------------------------------- C8 ---------------------------------- *)
\* the callback was called once for each consumed token that is not
\* suppressed, in order, each time by the consuming thread
CalledOncePerVisibleToken ==
    LET visible == VisiblePayloads(dequeued) IN
    IF run_manager
    THEN /\ Len(tokensSent) = Len(visible)
         /\ \A i \in DOMAIN tokensSent :
              /\ tokensSent[i].token = AsDelivered(visible[i])
              /\ tokensSent[i].thread = "consumer"
    ELSE tokensSent = <<>>

\* the callback is called only by a turn of the drain loop, one call a turn
CalledOnlyByDrainLoop ==
    [][(tokensSent' # tokensSent /\ pc # "idle")
        => /\ pc = "drain"
           /\ Len(dequeued') = Len(dequeued) + 1
           /\ Len(tokensSent') = Len(tokensSent) + 1
           /\ UNCHANGED <<cbPc, enqueued, nPushes>>]_vars

\* C8: token_callback is called exactly once for each PartialToken that is
\* not suppressed, in arrival order, always on the consuming thread inside
\* the drain loop and never by stream_callback.
C8_CallbackContract == []CalledOncePerVisibleToken /\ CalledOnlyByDrainLoop

\* two tokens were forwarded, then a stop token and a further token were
\* consumed
C8_Witness ==
    /\ GenerateReturned
    /\ run_manager
    /\ Len(tokensSent) = 2
    /\ Len(dequeued) = 5
    /\ dequeued[3].OUTPUT_0 \in STOP_WORDS

(* -------------------------------- C9 ---------------------------------- *)
\* C9: a turn of the drain loop that consumes a token that is not
\* suppressed appends it to the text, and hands it to the callback if there
\* is one, as a newline if it is the escape token and unchanged otherwise.
C9_NewlineNormalization ==
    [][(/\ pc = "drain"
        /\ dequeued' # dequeued
        /\ ~IsTerminal(Last(dequeued'))
        /\ send_tokens
        /\ Last(dequeued').OUTPUT_0 \notin STOP_WORDS)
        => LET payload == Last(dequeued').OUTPUT_0
               shown == IF payload = "<0x0A>" THEN "\n" ELSE payload
           IN /\ response' = response \o shown
              /\ run_manager =>
                   /\ Len(tokensSent') = Len(tokensSent) + 1
                   /\ Last(tokensSent').token = shown]_vars

\* The same with a run_manager given: this part of C9 holds of the code.
WithCallbackNewlineNormalization ==
    [][(/\ pc = "drain"
        /\ run_manager
        /\ dequeued' # dequeued
        /\ ~IsTerminal(Last(dequeued'))
        /\ send_tokens
        /\ Last(dequeued').OUTPUT_0 \notin STOP_WORDS)
        => LET payload == Last(dequeued').OUTPUT_0
               shown == IF payload = "<0x0A>" THEN "\n" ELSE payload
           IN /\ response' = response \o shown
              /\ Len(tokensSent') = Len(tokensSent) + 1
              /\ Last(tokensSent').token = shown]_vars

(* -------------------------------- C10 --------------------------------- *)
\* the execution slots of a configuration: one for each instance of a
\* group on each device of the group
Slots(instances) ==
    {<<g, c, d>> \in (DOMAIN instances) \X (1 .. MaxCount + 1) \X (1 .. MaxGpus + 1) :
        c <= instances[g].count /\ d <= Len(instances[g].gpus)}

ConcurrencyExample ==
    <<[count |-> 2, gpus |-> <<0, 1>>], [count |-> 1, gpus |-> <<0>>]>>

\* C10: get_model_concurrency returns the sum over the instance groups of
\* count times the number of gpus, which is the number of slots; a group
\* with no gpus adds nothing and does not make the call fail (the call
\* fails only when load_model does, before the configuration is read); the
\* example configuration yields 5.
C10_ConcurrencyIsSum ==
    /\ (op = "get_model_concurrency" /\ outcome = "returned")
        => /\ retval = RetInt(Cardinality(Slots(instancesRead)))
           /\ \A g \in DOMAIN instancesRead :
                instancesRead[g].gpus = <<>>
                    => retval = RetInt(Cardinality(Slots(
                           [h \in 1 .. Len(instancesRead) - 1 |->
                               IF h < g THEN instancesRead[h] ELSE instancesRead[h + 1]])))
           /\ instancesRead = ConcurrencyExample => retval = RetInt(5)
    /\ (op = "get_model_concurrency" /\ outcome \notin {"none", "returned"})
        => (outcome = "ModelLoadTimeout" /\ instancesRead = <<>>)

\* the example configuration was read together with a group of one instance
\* without devices: the concurrency is 5
C10_Witness ==
    /\ op = "get_model_concurrency"
    /\ outcome = "returned"
    /\ instancesRead = Append(ConcurrencyExample, [count |-> 1, gpus |-> <<>>])
    /\ retval = RetInt(5)

(* -------------------------------- C11 --------------------------------- *)
\* a _call that failed with one of the two setup errors is over and has
\* opened no stream, sent no request, received and consumed no event, called
\* no callback and not called close_streaming
SetupFailureLeavesNothing ==
    (op = "generate" /\ outcome \in {"ModelLoadTimeout", "ModelNotReady"})
        => /\ pc = "idle"
           /\ ~streamOpen
           /\ inferSent = 0
           /\ nPushes = 0
           /\ enqueued = <<>>
           /\ dequeued = <<>>
           /\ tokensSent = <<>>
           /\ closeCalls = 0

\* the failure of load_model or of request_streaming ends _call with the
\* same error and no return value
SetupFailurePropagates ==
    [][(/\ op = "generate"
        /\ pc \in {"lm_final", "rs_check"}
        /\ pc' # pc
        /\ lastReady' = "not_ready")
        => /\ pc' = "idle"
           /\ outcome' = (IF pc = "lm_final" THEN "ModelLoadTimeout"
                          ELSE "ModelNotReady")
           /\ message' = (IF pc = "lm_final"
                          THEN LoadFailure(model_name, DefaultTimeout)
                          ELSE NotLoaded)
           /\ retval' = RetNone]_vars

\* C11: a failure of the setup phase propagates out of generate: when
\* load_model fails with ModelLoadTimeout or request_streaming with
\* ModelNotReady, generate fails with that error, and in that call no
\* stream is opened, no event is dequeued, the token callback is never
\* called and close_streaming is not called.
C11_SetupFailuresPropagate == []SetupFailureLeavesNothing /\ SetupFailurePropagates

\* a _call ended with the failure of load_model, after its load command
C11_Witness ==
    /\ op = "generate"
    /\ outcome = "ModelLoadTimeout"
    /\ loadCmds = 1
    /\ lastReady = "not_ready"
    /\ pc = "idle"

(* -------------------------------- C12 --------------------------------- *)
\* the text a push carries
Payload(push) == IF push.ndim = 2 THEN push.data[1][1] ELSE push.data[1]

\* what a push without error is to enqueue, in order: the PartialToken of
\* its output data, if it has any, and then EndOfStream, if it has the
\* final flag
Emission(push) ==
    (IF push.has_outputs THEN <<TokenEvent(Payload(push))>> ELSE <<>>)
        \o (IF push.final THEN <<NoneEvent>> ELSE <<>>)

\* the callback of a push without error first puts the emission of the push
\* less its EndOfStream, and goes on to a second put exactly when the push
\* has the final flag
DataIsPutFirst ==
    [][nPushes' = nPushes + 1
          => \A push \in Pushes :
                (~push.error /\ cbPc = "idle" /\ StreamCallback(push))
                    => IF push.final
                       THEN /\ Append(enqueued', NoneEvent)
                                   = enqueued \o Emission(push)
                            /\ cbPc' = "cb_final"
                       ELSE /\ enqueued' = enqueued \o Emission(push)
                            /\ cbPc' = "idle"]_vars

\* the second put of a callback is EndOfStream; until it is made no other
\* push is taken up and nothing else is enqueued
EndOfStreamIsPutLast ==
    [][cbPc = "cb_final"
          => /\ nPushes' = nPushes
             /\ \/ cbPc' = "cb_final" /\ enqueued' = enqueued
                \/ cbPc' = "idle" /\ enqueued' = Append(enqueued, NoneEvent)]_vars

RECURSIVE TerminalEvents(_)
TerminalEvents(es) ==
    IF es = <<>> THEN 0
    ELSE (IF Head(es) \in {ErrorEvent, NoneEvent} THEN 1 ELSE 0)
            + TerminalEvents(Tail(es))

DataEvents(es) == Len(es) - TerminalEvents(es)

\* no push has enqueued more than one data event
AtMostOneDataEventPerPush == DataEvents(enqueued) <= nPushes

\* a stream that was closed has enqueued a terminal event
ClosedStreamHadTerminalEvent ==
    GenerateReturned => TerminalEvents(enqueued) >= 1

\* C13: whatever the server pushes on one stream, stream_callback enqueues
\* at most one data event for each push and, over the whole stream, exactly
\* one terminal event (ErrorEvent or None), also when an error push comes
\* before or after a push with the final flag.
C13_OneTerminalEvent ==
    /\ AtMostOneDataEventPerPush
    /\ TerminalEvents(enqueued) <= 1
    /\ GenerateReturned => TerminalEvents(enqueued) = 1

(* -------------------------------- C14 --------------------------------- *)
\* the consumer has dequeued EndOfStream or an ErrorEvent
TerminalDequeued ==
    dequeued # <<>> /\ Last(dequeued) \in {NoneEvent, ErrorEvent}

\* a _call that returned had opened a stream, dequeued a terminal event and
\* called close_streaming once
ClosedOnceAtReturn ==
    GenerateReturned => (inferSent = 1 /\ TerminalDequeued /\ closeCalls = 1)

\* until a terminal event is dequeued close_streaming is not called and
\* the stream that was opened stays open
NotClosedBeforeTerminal ==
    (op = "generate" /\ ~TerminalDequeued)
        => (closeCalls = 0 /\ (inferSent > 0 => streamOpen))

\* close_streaming is called by the step of the calling thread that leaves
\* the drain loop and returns, after the terminal event was dequeued
ClosedByConsumer ==
    [][closeCalls' > closeCalls
          => /\ pc = "close"
             /\ TerminalDequeued
             /\ closeCalls' = 1
             /\ pc' = "idle"
             /\ outcome' = "returned"
             /\ UNCHANGED <<nPushes, enqueued, result_queue, dequeued>>]_vars

\* no step of stream_callback calls close_streaming or ends the stream
CallbackNeverCloses ==
    [][(nPushes' = nPushes + 1 \/ (cbPc = "cb_final" /\ enqueued' # enqueued))
          => UNCHANGED <<closeCalls, streamOpen, pc>>]_vars

\* C14: in every generate that opened a stream and returns, close_streaming
\* is called exactly once, by the consuming thread, after the consumer has
\* dequeued the first terminal event and before generate returns; it is
\* never called from inside stream_callback and never before a terminal
\* event was dequeued.
C14_CloseProtocol ==
    /\ []ClosedOnceAtReturn
    /\ []NotClosedBeforeTerminal
    /\ ClosedByConsumer
    /\ CallbackNeverCloses

\* a _call returned after a token and an ErrorEvent, having closed once
C14_Witness ==
    /\ GenerateReturned
    /\ closeCalls = 1
    /\ ~streamOpen
    /\ Len(dequeued) = 2
    /\ dequeued[2] = ErrorEvent

(* -------------------------------- C15 --------------------------------- *)
\* the consumer has dequeued a stop token
StopDequeued ==
    \E i \in DOMAIN dequeued :
        dequeued[i].type = "dict" /\ dequeued[i].OUTPUT_0 \in STOP_WORDS

\* after a stop token and before a terminal event the call is still in its
\* drain loop, with the stream open and close_streaming not called
DrainsOnAfterStop ==
    (op = "generate" /\ StopDequeued /\ ~TerminalDequeued)
        => /\ pc = "drain"
           /\ outcome = "none"
           /\ streamOpen
           /\ closeCalls = 0

\* after a stop token the loop still takes the events in turn, the next
\* one each time, and it is left only with a terminal event
NothingSkippedAfterStop ==
    [][(pc = "drain" /\ StopDequeued /\ <<pc, dequeued>>' # <<pc, dequeued>>)
          => /\ result_queue # <<>>
             /\ dequeued' = Append(dequeued, Head(result_queue))
             /\ result_queue' = Tail(result_queue)
             /\ pc' = (IF Head(result_queue) \in {NoneEvent, ErrorEvent}
                       THEN "close" ELSE "drain")]_vars

\* C15: after a stop token was consumed generate neither returns nor closes
\* the stream early: it goes on dequeuing until it dequeues a terminal
\* event (None or an ErrorEvent) and only then closes the stream and
\* returns.
C15_DrainsAfterStop ==
    /\ []DrainsOnAfterStop
    /\ NothingSkippedAfterStop
    /\ [](GenerateReturned /\ StopDequeued => TerminalDequeued /\ closeCalls = 1)

\* a _call returned after a stop token, a further token and None
C15_Witness ==
    /\ GenerateReturned
    /\ Len(dequeued) = 3
    /\ dequeued[1] = TokenEvent("</s>")
    /\ dequeued[2] = TokenEvent("tok")
    /\ dequeued[3] = NoneEvent
    /\ closeCalls = 1

(* -------------------------------- C16 --------------------------------- *)
\* a stream is open on which the server has made a push with an error or
\* with the final flag
TerminalPushDelivered == op = "generate" /\ streamOpen /\ finalPushed

\* once such a push was delivered the call closes the stream and returns
ReturnsAfterTerminalPush == TerminalPushDelivered ~> GenerateReturned

\* a call returns only if such a push was delivered
ReturnsOnlyAfterTerminalPush == GenerateReturned => finalPushed

\* while the queue is empty the call stays in result_queue.get()
BlocksOnEmptyQueue ==
    [][(pc = "drain" /\ result_queue = <<>>)
          => (pc' = "drain" /\ UNCHANGED <<dequeued, closeCalls, outcome>>)]_vars

\* C16: once generate has opened a stream, if the server delivers a push
\* that is an error or has the final flag, with or without output data,
\* then, the delivery thread and the consumer being scheduled fairly,
\* generate eventually closes the stream and returns; if no such push is
\* ever delivered generate stays blocked on the queue and never returns.
C16_DrainTermination ==
    /\ ReturnsAfterTerminalPush
    /\ []ReturnsOnlyAfterTerminalPush
    /\ BlocksOnEmptyQueue

(* -------------------------------- C17 --------------------------------- *)
\* every start_stream finds no stream open and opens one
StartsWhileNoneOpen ==
    [][inferSent' = inferSent + 1 => (~streamOpen /\ streamOpen')]_vars

\* a stream is open only inside the _call that opened it, from its request
\* to its close: none between two calls and none during the setup of a call
OpenOnlyWhileStreaming ==
    streamOpen <=> (op = "generate" /\ pc \in {"drain", "close"})

\* a generation that ended with an ErrorEvent or with None has closed its
\* stream
ClosedAfterGeneration ==
    (GenerateReturned /\ TerminalDequeued) => ~streamOpen

\* C17: over calls of generate made one after another on one client, at
\* most one stream is open at any time, every start of a stream happens
\* while no stream is open, and after a generation that ended with an
\* ErrorEvent or with EndOfStream the stream is closed, so that the next
\* call can open a new one.
C17_SequentialReuse ==
    /\ StartsWhileNoneOpen
    /\ []OpenOnlyWhileStreaming
    /\ []ClosedAfterGeneration

\* after an earlier generation on the same client (its queue was left with
\* events in it) a later one opened a stream, ended with an ErrorEvent and
\* closed it
C17_Witness ==
    /\ abandoned
    /\ GenerateReturned
    /\ inferSent = 1
    /\ Last(dequeued) = ErrorEvent
    /\ ~streamOpen

(* -------------------------------- C18 --------------------------------- *)
\* the readiness queries and the load command of a _call are addressed to
\* the model the adapter was constructed with
LoadAddressedToConstructedModel ==
    (op = "generate" /\ (lastReady # "none" \/ loadCmds > 0))
        => model_name = SelfModelName

\* the streaming request of a _call is addressed to that model
StreamAddressedToConstructedModel ==
    (op = "generate" /\ inferSent > 0) => model_name = SelfModelName

\* C18: the model identity is fixed at construction: in every generate
\* the readiness query, the load command and the streaming request are
\* addressed to the model_name the adapter was constructed with, whatever
\* the per-call override parameters; no per-call argument changes the
\* routing target.
C18_ModelIdentityFixed ==
    LoadAddressedToConstructedModel /\ StreamAddressedToConstructedModel

(* -------------------------------- C19 --------------------------------- *)
\* a _call begins with a queue of its own, empty whatever the call before
\* left in its queue, and the queue stays empty until the call's own
\* stream is opened
StartsWithOwnQueue ==
    /\ [][(pc = "idle" /\ pc' # "idle" /\ op' = "generate")
            => (result_queue' = <<>> /\ dequeued' = <<>>)]_vars
    /\ []((op = "generate" /\ inferSent = 0) => result_queue = <<>>)

\* every event a _call has consumed is one the callback of its own stream
\* put, in that order
ConsumesOnlyOwnEvents ==
    op = "generate"
        => /\ Len(dequeued) <= Len(enqueued)
           /\ \A i \in DOMAIN dequeued : dequeued[i] = enqueued[i]

\* C19: each generate creates its own result queue and the callback of its
\* stream is bound to that queue only: events enqueued for one generation,
\* also those of pushes that arrived after its terminal event was
\* consumed, are never dequeued by a later generate on the same client;
\* every event a generate consumes was produced by the stream it opened.
C19_QueueIsolation == StartsWithOwnQueue /\ []ConsumesOnlyOwnEvents

\* the call before left events in its queue, pushed after its terminal
\* event; this call consumed the two events of its own stream and returned
C19_Witness ==
    /\ abandoned
    /\ GenerateReturned
    /\ enqueued = <<TokenEvent("tok"), NoneEvent>>
    /\ dequeued = enqueued

(* -------------------------------- C20 --------------------------------- *)
\* a call sends no load command while its first query is outstanding or
\* answered ready, and one, from line 183 and never again, once the first
\* query answered not ready
OneLoadCommand ==
    /\ [](loadCmds = (IF pc \in {"lm_check", "lm_load"} THEN 0
                      ELSE IF pc \in {"lm_poll", "lm_final"} THEN 1
                      ELSE loadCmds))
    /\ [](loadCmds <= 1)
    /\ [][(pc = "lm_check" /\ lastReady' = "not_ready") => pc' = "lm_load"]_vars
    /\ [][loadCmds' > loadCmds => (pc = "lm_load" /\ loadCmds' = 1)]_vars

\* load_model returns normally only when its last query answered ready, and
\* raises when the query after the loop answers not ready, even if a query
\* of the loop had answered ready
ReturnsOnlyIfLastQueryReady ==
    /\ []((op = "load_model" /\ outcome = "returned") => lastReady = "ready")
    /\ []((op = "load_model" /\ outcome = "ModelLoadTimeout")
            => (lastReady = "not_ready" /\ loadCmds = 1))
    /\ [][(pc = "lm_final" /\ lastReady' = "not_ready")
            => (outcome' = "ModelLoadTimeout" /\ pc' = "idle")]_vars

\* C20: load_model sends at most one load command per call, exactly one
\* when its first readiness query answers false and never a second one,
\* and it returns normally only if its last readiness query answered true;
\* if that query answers false it raises.
C20_OneLoadLastQueryDecides == OneLoadCommand /\ ReturnsOnlyIfLastQueryReady

\* a call sent its one load command, saw the model ready in the loop, and
\* raised because the query after the loop answered not ready
C20_Witness ==
    /\ op = "load_model"
    /\ outcome = "ModelLoadTimeout"
    /\ sawReady
    /\ lastReady = "not_ready"
    /\ loadCmds = 1

(* --------------------------- specifications --------------------------- *)
\* the steps of load_model, whoever called it
LoadSteps ==
    \/ load_model_check
    \/ load_model_load
    \/ load_model_poll
    \/ load_model_final

\* direct calls of load_model
NextLoad ==
    \/ load_model_call
    \/ LoadSteps

SpecLoad == Init /\ [][NextLoad]_vars

\* calls of get_model_concurrency
NextConcurrency ==
    \/ get_model_concurrency_call
    \/ LoadSteps
    \/ get_model_concurrency_config

SpecConcurrency == Init /\ [][NextConcurrency]_vars

\* calls of _call against a server that pushes any responses
Next ==
    \/ call_begin
    \/ LoadSteps
    \/ call_request_streaming
    \/ request_streaming
    \/ stream_callback
    \/ stream_callback_final
    \/ call_drain
    \/ call_close_return

Spec == Init /\ [][Next]_vars

\* calls of _call against a server that replays the example streams
NextExamples ==
    \/ call_begin
    \/ LoadSteps
    \/ call_request_streaming
    \/ request_streaming
    \/ example_stream_callback
    \/ stream_callback_final
    \/ call_drain
    \/ call_close_return

SpecExamples == Init /\ [][NextExamples]_vars

\* calls of _call against a server whose OUTPUT_0 may have any rank
NextAnyRank ==
    \/ call_begin
    \/ LoadSteps
    \/ call_request_streaming
    \/ request_streaming
    \/ stream_callback
    \/ stream_callback_other_rank
    \/ stream_callback_final
    \/ call_drain
    \/ call_close_return

SpecAnyRank == Init /\ [][NextAnyRank]_vars

\* The calling thread keeps running its drain loop and the delivery thread
\* the callback it has begun: a get() on a queue that is not empty returns,
\* and a callback past line 241 makes its put.
DrainFairness ==
    /\ WF_vars(call_drain)
    /\ WF_vars(call_close_return)
    /\ WF_vars(stream_callback_final)

FairSpec == Spec /\ DrainFairness

FairSpecAnyRank == SpecAnyRank /\ DrainFairness

\* Direct calls of load_model by a thread that keeps running, with a
\* monotonic clock that does not stand still for ever
FairSpecLoad ==
    /\ SpecLoad
    /\ WF_vars(LoadSteps)
    /\ SF_vars(load_model_poll /\ t1' > t1)
====
